---- MODULE Spec2Model ----
(***************************************************************************)
(* Model of tawazi's DAG scheduler: tawazi/_dag/helpers.py, execute() and  *)
(* its helpers.  One invocation of execute is modelled: the coordinator    *)
(* thread (the while loop of execute, cut at its three blocking waits and  *)
(* at the places where it reads Future.done()), the workers of the         *)
(* ThreadPoolExecutor, and the monotonic clock.  A second specification,   *)
(* ReuseSpec, models the state table of successive invocations on one      *)
(* node_dict (copy_non_setup_xns).                                         *)
(***************************************************************************)
EXTENDS Integers, Sequences, FiniteSets, TLC

\* ------------------------------------------------------------------ bounds
\* Node identifiers of the graphs that are explored.
Nodes == {1, 2, 3}
\* Largest value the monotonic clock takes.
MaxTime == 2
\* Largest per-node timeout.
MaxTimeout == 1
\* Largest node priority (the smallest is 1).
MaxPriority == 2
\* Largest max_concurrency.
MaxConcurrency == 2
\* Largest number of non-default node attributes in one graph (a priority
\* above 1, is_sequential, a timeout, active other than True, executed on
\* entry, a run that raises).
MaxSpecial == 2
\* Largest number of successive invocations on one node_dict.
MaxCalls == 2

VARIABLES
    \* ---- arguments of execute (never modified by the scheduler)
    edges,              \* graph: set of <<dependency, dependent>>
    priority,           \* ExecNode.priority
    is_sequential,      \* set of ids with ExecNode.is_sequential
    timeout,            \* ExecNode.timeout: function on the ids that have one
    active,             \* ExecNode.active: <<"bool", b>> or <<"ref", id>>
    executed,           \* ids with ExecNode.executed on entry
    raises,             \* ids whose run raises an exception
    behavior,           \* ErrorStrategy
    max_concurrency,
    \* ---- local state of execute
    graph,              \* ids still in the working graph
    futures,            \* id -> state of its Future
    order,              \* keys of futures in insertion (submission) order
    running,            \* the set named running in execute (ids of handles)
    futures_launch_time,
    runnable_xns_ids,
    next_timeout,       \* absolute deadline of the wait in progress: {} or {d}
    result,             \* xns_dict[id].result
    pc,                 \* position of the coordinator
    now,                \* monotonic()
    \* ---- history (observation only)
    reaped,             \* ids removed by the reap loop
    pruned,             \* ids on which remove_recursively was called at 5.1
    picked,             \* the node chosen by the last pick (xn): {} or {id}
    ready_at_pick,      \* the ready set the last pick chose from
    waited_on,          \* the not-done futures when the wait in progress began
    failed_wait,        \* the wait that raised TawaziTimeoutError, if any
    \* ---- the node records of successive invocations (ReuseSpec)
    setup,              \* ids with ExecNode.setup
    heap,               \* the ExecNode objects: object -> its result
    xns_dict,           \* state table of the invocation in progress: id -> object
    call,               \* number of invocations started
    ran,                \* ids whose run stored a result in the invocation in progress
    tables              \* the state tables returned so far

inputs == <<edges, priority, is_sequential, timeout, active, executed, raises,
            behavior, max_concurrency>>
locals == <<graph, futures, order, running, futures_launch_time,
            runnable_xns_ids, next_timeout, result, pc>>
history == <<reaped, pruned, picked, ready_at_pick, waited_on, failed_wait>>
records == <<setup, heap, xns_dict, call, ran, tables>>
vars == <<inputs, locals, now, history, records>>

\* ------------------------------------------------------------ the working graph
AllEdges == {e \in Nodes \X Nodes : e[1] < e[2]}

\* DiGraphEx.root_nodes
root_nodes(g) == {n \in g : \A p \in g : <<p, n>> \notin edges}

\* DiGraphEx.successors
successors(g, n) == {m \in g : <<n, m>> \in edges}

\* DiGraphEx.remove_node
remove_node(g, n) == g \ {n}

RECURSIVE Descendants(_, _)
Descendants(g, n) ==
    LET s == successors(g, n)
    IN  s \cup UNION {Descendants(g, m) : m \in s}

\* DiGraphEx.remove_recursively, defined on ids present in the graph
remove_recursively(g, n) == g \ ({n} \cup Descendants(g, n))

\* transitive dependents in the graph passed to execute
RECURSIVE AllDescendants(_)
AllDescendants(n) ==
    LET s == {m \in Nodes : <<n, m>> \in edges}
    IN  s \cup UNION {AllDescendants(m) : m \in s}

Predecessors(n) == {p \in Nodes : <<p, n>> \in edges}

\* ExecNode.compound_priority
RECURSIVE SumPriority(_)
SumPriority(S) ==
    IF S = {} THEN 0
    ELSE LET n == CHOOSE m \in S : TRUE
         IN  priority[n] + SumPriority(S \ {n})

compound_priority(n) == priority[n] + SumPriority(AllDescendants(n))

\* ------------------------------------------------------------------- futures
FutDone(id) == futures[id] \in {"ok", "err"}

\* get_num_running_threads
get_num_running_threads == Cardinality({id \in DOMAIN futures : ~FutDone(id)})

\* number of pool threads that execute a node
NumWorkersBusy == Cardinality({id \in DOMAIN futures : futures[id] = "running"})

\* a pool with one thread too many
max_workers_plus_one == max_concurrency + 1

\* ThreadPoolExecutor(max_workers=max_concurrency)
max_workers == max_concurrency

Min(S) == CHOOSE x \in S : \A y \in S : x <= y
Max(S) == CHOOSE x \in S : \A y \in S : x >= y

\* get_next_timeout without the test of fut.done(): the deadlines of the
\* finished futures count too
get_next_timeout_of_all(_futures_launch_time, _futures) ==
    LET cand == {_futures_launch_time[id] + timeout[id] :
                    id \in {i \in DOMAIN _futures : i \in DOMAIN timeout}}
    IN  IF cand = {} THEN {} ELSE {Min(cand)}

\* get_next_timeout, as the absolute deadline: {} stands for None
get_next_timeout(_futures_launch_time, _futures) ==
    LET cand == {_futures_launch_time[id] + timeout[id] :
                    id \in {i \in DOMAIN _futures :
                               _futures[i] \notin {"ok", "err"} /\ i \in DOMAIN timeout}}
    IN  IF cand = {} THEN {} ELSE {Min(cand)}

\* the selection with min in place of max
get_lowest_priority_nodes(nodes) ==
    LET lowest_priority == Min({priority[n] : n \in nodes})
    IN  {n \in nodes : priority[n] = lowest_priority}

\* get_highest_priority_nodes
get_highest_priority_nodes(nodes) ==
    LET highest_priority == Max({priority[n] : n \in nodes})
    IN  {n \in nodes : priority[n] = highest_priority}

\* 4.1.2: the candidates for highest_priority_xns[-1] after the sort
HighestCompound(nodes) ==
    {n \in nodes : \A m \in nodes : compound_priority(n) >= compound_priority(m)}

\* bool(result): a result is "T" (truthy), "F" (falsy) or "NoVal" (not set);
\* NoVal is taken as falsy
Truthy(r) == r = "T"

\* _xn_active_in_call
xn_active_in_call(n) ==
    IF active[n][1] = "bool" THEN active[n][2]
    ELSE Truthy(result[active[n][2]])

\* --------------------------------------------------------------------- Init
\* a node some other node's active refers to
Referenced(id_) == \E n \in Nodes : active[n][1] = "ref" /\ active[n][2] = id_

\* the values a run of the node may return
ReturnValues(id_) == IF Referenced(id_) THEN {"T", "F"} ELSE {"T"}

ActiveValues ==
    {<<"bool", TRUE>>, <<"bool", FALSE>>} \cup {<<"ref", p>> : p \in Nodes}

ConstantTrue(a) == a[1] = "bool" /\ a[2]

NumSpecial ==
    Cardinality({n \in Nodes : priority[n] > 1})
    + Cardinality(is_sequential) + Cardinality(DOMAIN timeout)
    + Cardinality({n \in Nodes : ~ConstantTrue(active[n])})
    + Cardinality(executed) + Cardinality(raises)

\* Spec follows one invocation on its state table (result); the node records
\* of successive invocations are followed by ReuseSpec
NoRecords ==
    /\ setup = {}
    /\ heap = <<>>
    /\ xns_dict = <<>>
    /\ call = 0
    /\ ran = {}
    /\ tables = <<>>

Init ==
    /\ edges \in SUBSET AllEdges
    /\ priority \in [Nodes -> 1..MaxPriority]
    /\ is_sequential \in SUBSET Nodes
    /\ \E T \in SUBSET Nodes : timeout \in [T -> 1..MaxTimeout]
    /\ active \in [Nodes -> ActiveValues]
    /\ \A n \in Nodes : active[n][1] = "ref" => active[n][2] \in Predecessors(n)
    /\ executed \in SUBSET Nodes
    /\ \A n \in executed : Predecessors(n) \subseteq executed
    /\ raises \in SUBSET (Nodes \ executed)
    /\ NumSpecial <= MaxSpecial
    /\ behavior \in {"strict", "permissive", "all_children"}
    \* the three strategies differ only once a run raises
    /\ raises = {} => behavior = "strict"
    /\ max_concurrency \in 1..MaxConcurrency
    /\ graph = Nodes
    /\ futures = <<>>
    /\ order = <<>>
    /\ running = {}
    /\ futures_launch_time = <<>>
    /\ runnable_xns_ids = {}
    /\ next_timeout = {}
    /\ result \in [Nodes -> {"NoVal", "T", "F"}]
    /\ \A n \in Nodes : result[n] = "NoVal" <=> n \notin executed
    /\ \A n \in Nodes : result[n] = "F" => Referenced(n)
    /\ pc = "start"
    /\ now = 0
    /\ reaped = {}
    /\ pruned = {}
    /\ picked = {}
    /\ ready_at_pick = {}
    /\ waited_on = {}
    /\ failed_wait = "none"
    /\ NoRecords

\* ---------------------------------------------------------- error handling
\* every other node of the graph in place of the successors of id_
SuccessorListOthers(g, id_, ord) == SelectSeq(ord, LAMBDA m : m \in g /\ m # id_)

\* the successors of id_, listed in the order ord (a sequence of all ids)
SuccessorList(g, id_, ord) == SelectSeq(ord, LAMBDA m : m \in successors(g, id_))

\* the loop over the successors that removes each successor alone
RECURSIVE RemoveChildrenOnly(_, _)
RemoveChildrenOnly(g, children) ==
    IF children = <<>> THEN [graph |-> g, raised |-> "none"]
    ELSE IF Head(children) \notin g THEN [graph |-> g, raised |-> "GraphError"]
    ELSE RemoveChildrenOnly(remove_node(g, Head(children)), Tail(children))

\* handle_exception, all_children branch: the loop over the successors
RECURSIVE RemoveChildren(_, _)
RemoveChildren(g, children) ==
    IF children = <<>> THEN [graph |-> g, raised |-> "none"]
    ELSE IF Head(children) \notin g THEN [graph |-> g, raised |-> "GraphError"]
    ELSE RemoveChildren(remove_recursively(g, Head(children)), Tail(children))

\* handle_exception in which every strategy ignores the exception
handle_exception_ignored(g, id_, ord) == [graph |-> g, raised |-> "none"]

\* handle_exception in which strict swallows the exception
handle_exception_strict_silent(g, id_, ord) ==
    IF futures[id_] # "err" THEN [graph |-> g, raised |-> "none"]
    ELSE IF behavior \in {"strict", "permissive"} THEN [graph |-> g, raised |-> "none"]
    ELSE RemoveChildren(g, SuccessorList(g, id_, ord))

\* handle_exception in which permissive removes the successors too
handle_exception_permissive_prunes(g, id_, ord) ==
    IF futures[id_] # "err" THEN [graph |-> g, raised |-> "none"]
    ELSE IF behavior = "strict" THEN [graph |-> g, raised |-> "NodeError"]
    ELSE RemoveChildren(g, SuccessorList(g, id_, ord))

\* handle_exception
handle_exception(g, id_, ord) ==
    IF futures[id_] # "err" THEN [graph |-> g, raised |-> "none"]
    ELSE IF behavior = "strict" THEN [graph |-> g, raised |-> "NodeError"]
    ELSE IF behavior = "permissive" THEN [graph |-> g, raised |-> "none"]
    ELSE RemoveChildren(g, SuccessorList(g, id_, ord))

\* the reap loop without the test of fut.done()
ReapableNotDone(g, id_) == id_ \in g

\* line 183: the condition under which the reap loop handles a future
Reapable(g, id_) == FutDone(id_) /\ id_ \in g

\* lines 182-186: the reap loop over futures.items(), from position i on
RECURSIVE ReapLoop(_, _, _, _)
ReapLoop(i, g, rp, ord) ==
    IF i > Len(order) THEN [graph |-> g, raised |-> "none", reaped |-> rp]
    ELSE LET id_ == order[i]
         IN  IF Reapable(g, id_)
             THEN LET h == handle_exception(g, id_, ord)
                  IN  IF h.raised # "none"
                      THEN [graph |-> h.graph, raised |-> h.raised, reaped |-> rp]
                      ELSE ReapLoop(i + 1, remove_node(h.graph, id_), rp \cup {id_}, ord)
             ELSE ReapLoop(i + 1, g, rp, ord)

Orders(S) ==
    {f \in [1..Cardinality(S) -> S] : \A i, j \in 1..Cardinality(S) : f[i] = f[j] => i = j}

\* ------------------------------------------------------------------ actions
\* a selection that finds no precomputed node
precomputed_xns_ids_none(g) == {}

\* line 138: the ids of the graph whose node is executed on entry
precomputed_xns_ids(g) == {id_ \in g : id_ \in executed}

\* lines 135-150: state table, pruning of the precomputed nodes, first roots
Start ==
    /\ pc = "start"
    /\ graph' = graph \ precomputed_xns_ids(graph)
    /\ runnable_xns_ids' = root_nodes(graph')
    /\ pc' = "loop"
    /\ UNCHANGED <<records, inputs, futures, order, running, futures_launch_time,
                   next_timeout, result, now, history>>

\* the submitted futures that are not done
NotDone == {id_ \in DOMAIN futures : ~FutDone(id_)}

\* the test that blocks as soon as one node is in flight
MustBlockWhileAnyRuns == get_num_running_threads # 0 \/ runnable_xns_ids = {}

\* line 164: the scheduler must block until a node finishes
MustBlock == get_num_running_threads = max_concurrency \/ runnable_xns_ids = {}

\* lines 153-170: loop test and the decision to block
LoopHead ==
    /\ pc = "loop"
    /\ IF graph = {}
       THEN /\ pc' = "returned"
            /\ UNCHANGED <<next_timeout, waited_on>>
       ELSE IF MustBlock
       THEN /\ next_timeout' = get_next_timeout(futures_launch_time, futures)
            /\ waited_on' = NotDone
            /\ pc' = "wait1"
       ELSE /\ pc' = "reap"
            /\ UNCHANGED <<next_timeout, waited_on>>
    /\ UNCHANGED <<records, inputs, graph, futures, order, running, futures_launch_time,
                   runnable_xns_ids, result, now, reaped, pruned, picked,
                   ready_at_pick, failed_wait>>

\* concurrent.futures.wait(fs, timeout, FIRST_COMPLETED) may return
WaitFirstCompleted(fs) ==
    \/ \E id_ \in fs : FutDone(id_)
    \/ fs = {}
    \/ \E d \in next_timeout : now >= d

\* concurrent.futures.wait(fs, timeout, ALL_COMPLETED) may return
WaitAllCompleted(fs) ==
    \/ \A id_ \in fs : FutDone(id_)
    \/ \E d \in next_timeout : now >= d

\* raise_timeout_error_conditionally
raise_timeout_error_conditionally(done_) == done_ = {}

\* lines 172-176
Wait1 ==
    /\ pc = "wait1"
    /\ WaitFirstCompleted(running)
    /\ LET done_ == {id_ \in running : FutDone(id_)}
       IN  /\ running' = running \ done_
           /\ IF raise_timeout_error_conditionally(done_)
              THEN /\ pc' = "TimeoutError"
                   /\ failed_wait' = "wait1"
              ELSE /\ pc' = "reap"
                   /\ UNCHANGED failed_wait
    /\ next_timeout' = {}
    /\ waited_on' = {}
    /\ UNCHANGED <<records, inputs, graph, futures, order, futures_launch_time,
                   runnable_xns_ids, result, now, reaped, pruned, picked, ready_at_pick>>

\* the root nodes, those that are being executed included
RunnableWithSubmitted(g) == root_nodes(g)

\* line 189: the root nodes that are not being executed
Runnable(g) == root_nodes(g) \ DOMAIN futures

\* lines 182-195: reap the finished futures, list the runnable roots
Reap ==
    /\ pc = "reap"
    /\ \E ord \in Orders(Nodes) :
         LET r == ReapLoop(1, graph, reaped, ord)
         IN  /\ graph' = r.graph
             /\ reaped' = r.reaped
             /\ IF r.raised # "none"
                THEN /\ pc' = r.raised
                     /\ UNCHANGED runnable_xns_ids
                ELSE /\ runnable_xns_ids' = Runnable(graph')
                     /\ pc' = IF runnable_xns_ids' = {} THEN "loop" ELSE "pick"
    /\ UNCHANGED <<records, inputs, futures, order, running, futures_launch_time,
                   next_timeout, result, now, pruned, picked, ready_at_pick,
                   waited_on, failed_wait>>

\* line 240: the launch time is recorded; it is read only for a node that has
\* a timeout (line 85) and kept for those nodes
LaunchTimes(n) ==
    IF n \in DOMAIN timeout THEN (n :> now) @@ futures_launch_time
    ELSE futures_launch_time

\* ThreadPoolExecutor.submit: the work item runs at once when a pool thread is
\* free, otherwise it stays in the work queue
Submitted(n) == IF NumWorkersBusy < max_workers THEN "running" ELSE "pending"

\* the pruning that removes the other roots with the inactive node
PruneWithSiblings(g, n) == remove_recursively(g, n) \ root_nodes(g)

\* the pruning that removes the inactive node alone
PruneNodeOnly(g, n) == remove_node(g, n)

\* line 233: the picked node is inactive and leaves the graph with its dependents
Prune(g, n) == remove_recursively(g, n)

\* the test of line 216 that never defers the node
MustRunAloneNever(n) == FALSE

\* line 216: the node must wait for the in-flight nodes to end
MustRunAlone(n) == n \in is_sequential /\ get_num_running_threads # 0

\* lines 200-206: the nodes the pick may return
PickCandidates == HighestCompound(get_highest_priority_nodes(runnable_xns_ids))

\* lines 200-248: pick a node, then defer it, prune it or submit it
Pick ==
    /\ pc = "pick"
    /\ \E n \in PickCandidates :
         /\ picked' = {n}
         /\ ready_at_pick' = root_nodes(graph) \ DOMAIN futures
         /\ IF MustRunAlone(n)
            THEN /\ next_timeout' = get_next_timeout(futures_launch_time, futures)
                 /\ waited_on' = NotDone
                 /\ pc' = "wait6"
                 /\ UNCHANGED <<graph, futures, order, running, futures_launch_time, pruned>>
            ELSE IF ~xn_active_in_call(n)
            THEN /\ graph' = Prune(graph, n)
                 /\ pruned' = pruned \cup {n}
                 /\ pc' = "loop"
                 /\ UNCHANGED <<futures, order, running, futures_launch_time,
                                next_timeout, waited_on>>
            ELSE /\ futures' = (n :> Submitted(n)) @@ futures
                 /\ order' = Append(order, n)
                 /\ running' = running \cup {n}
                 /\ futures_launch_time' = LaunchTimes(n)
                 /\ IF n \in is_sequential
                    THEN /\ next_timeout' = get_next_timeout(futures_launch_time', futures')
                         /\ waited_on' = {id_ \in DOMAIN futures' : futures'[id_] \notin {"ok", "err"}}
                         /\ pc' = "wait9"
                    ELSE /\ pc' = "loop"
                         /\ UNCHANGED <<next_timeout, waited_on>>
                 /\ UNCHANGED <<graph, pruned>>
    /\ UNCHANGED <<records, inputs, runnable_xns_ids, result, now, reaped, failed_wait>>

\* lines 223-228
Wait6 ==
    /\ pc = "wait6"
    /\ WaitFirstCompleted(running)
    /\ LET done_ == {id_ \in running : FutDone(id_)}
       IN  /\ running' = running \ done_
           /\ IF raise_timeout_error_conditionally(done_)
              THEN /\ pc' = "TimeoutError"
                   /\ failed_wait' = "wait6"
              ELSE /\ pc' = "loop"
                   /\ UNCHANGED failed_wait
    /\ next_timeout' = {}
    /\ waited_on' = {}
    /\ UNCHANGED <<records, inputs, graph, futures, order, futures_launch_time,
                   runnable_xns_ids, result, now, reaped, pruned, picked, ready_at_pick>>

\* lines 251-255
Wait9 ==
    /\ pc = "wait9"
    /\ WaitAllCompleted(DOMAIN futures)
    /\ LET done_ == {id_ \in DOMAIN futures : FutDone(id_)}
       IN  /\ running' = DOMAIN futures \ done_
           /\ IF raise_timeout_error_conditionally(done_)
              THEN /\ pc' = "TimeoutError"
                   /\ failed_wait' = "wait9"
              ELSE /\ pc' = "loop"
                   /\ UNCHANGED failed_wait
    /\ next_timeout' = {}
    /\ waited_on' = {}
    /\ UNCHANGED <<records, inputs, graph, futures, order, futures_launch_time,
                   runnable_xns_ids, result, now, reaped, pruned, picked, ready_at_pick>>

\* ------------------------------------------------------------------ workers
\* A future is "pending" (in the work queue), "running" (a pool thread executes
\* the node), "ok" (done with a result) or "err" (done with an exception).
\* the work queue of the pool: the pending futures in submission order
WorkQueue == SelectSeq(order, LAMBDA id_ : futures[id_] = "pending")

\* a pool thread that ends after its run and leaves the work queue alone
WorkerDoneAndExit(id_, st) == [futures EXCEPT ![id_] = st]

\* the pool thread that ended the run of id_ with state st takes the next item
WorkerDone(id_, st) ==
    IF WorkQueue = <<>> THEN [futures EXCEPT ![id_] = st]
    ELSE [futures EXCEPT ![id_] = st, ![Head(WorkQueue)] = "running"]

\* ExecNode._execute returns: the result is stored, the future is done
WorkerReturn(id_) ==
    /\ id_ \in DOMAIN futures
    /\ futures[id_] = "running"
    /\ id_ \notin raises
    /\ \E v \in ReturnValues(id_) : result' = [result EXCEPT ![id_] = v]
    /\ futures' = WorkerDone(id_, "ok")
    /\ UNCHANGED <<records, inputs, graph, order, running, futures_launch_time,
                   runnable_xns_ids, next_timeout, pc, now, history>>

\* ExecNode._execute raises: the future holds the exception
WorkerRaise(id_) ==
    /\ id_ \in DOMAIN futures
    /\ futures[id_] = "running"
    /\ id_ \in raises
    /\ futures' = WorkerDone(id_, "err")
    /\ UNCHANGED <<records, inputs, graph, order, running, futures_launch_time,
                   runnable_xns_ids, next_timeout, result, pc, now, history>>

\* some in-flight node has a deadline that has not passed.  The clock is read
\* only to compare it with these deadlines (lines 86-90), so it is advanced
\* only while such a deadline is ahead.
DeadlinePending ==
    \E id_ \in DOMAIN futures :
        /\ ~FutDone(id_)
        /\ id_ \in DOMAIN timeout
        /\ now < futures_launch_time[id_] + timeout[id_]

Finished == pc \in {"returned", "TimeoutError", "NodeError", "GraphError"}

\* the monotonic clock advances
Tick ==
    /\ now < MaxTime
    /\ ~Finished
    /\ DeadlinePending
    /\ now' = now + 1
    /\ UNCHANGED <<records, inputs, locals, history>>

Next ==
    \/ Start
    \/ LoopHead
    \/ Wait1
    \/ Reap
    \/ Pick
    \/ Wait6
    \/ Wait9
    \/ \E id_ \in Nodes : WorkerReturn(id_)
    \/ \E id_ \in Nodes : WorkerRaise(id_)
    \/ Tick

Spec == Init /\ [][Next]_vars

\* the coordinator thread: the steps of the while loop of execute
Coordinator == Start \/ LoopHead \/ Wait1 \/ Reap \/ Pick \/ Wait6 \/ Wait9

\* the pool thread that executes the node id_
Worker(id_) == WorkerReturn(id_) \/ WorkerRaise(id_)

\* The coordinator thread takes its next step when it can, and every run that
\* a pool thread has started ends.  Nothing is assumed about the clock.
FairSpec ==
    /\ Spec
    /\ WF_vars(Coordinator)
    /\ \A id_ \in Nodes : WF_vars(Worker(id_))

\* ------------------------------------------- state tables of successive calls
\* node_dict: the object that is the original record of node id_
node_dict(id_) == id_

\* copy_non_setup_xns that returns the records of node_dict themselves
RECURSIVE copy_non_setup_xns_shared(_, _, _)
copy_non_setup_xns_shared(ids, h, x_nodes_copy) ==
    IF ids = <<>> THEN [heap |-> h, x_nodes_copy |-> x_nodes_copy]
    ELSE LET id_ == Head(ids)
         IN  copy_non_setup_xns_shared(Tail(ids), h, (id_ :> node_dict(id_)) @@ x_nodes_copy)

\* copy_non_setup_xns: the loop over x_nodes.items(); copy(x_nd) makes a new
\* object that holds the attributes of x_nd, its result included
RECURSIVE copy_non_setup_xns(_, _, _)
copy_non_setup_xns(ids, h, x_nodes_copy) ==
    IF ids = <<>> THEN [heap |-> h, x_nodes_copy |-> x_nodes_copy]
    ELSE LET id_ == Head(ids)
         IN  IF id_ \in setup
             THEN copy_non_setup_xns(Tail(ids), h, (id_ :> node_dict(id_)) @@ x_nodes_copy)
             ELSE copy_non_setup_xns(Tail(ids), Append(h, h[node_dict(id_)]),
                                     (id_ :> Len(h) + 1) @@ x_nodes_copy)

\* the ids of node_dict in the order of the dict
NodeIds == CHOOSE ord \in Orders(Nodes) : \A i \in 1..(Len(ord) - 1) : ord[i] < ord[i + 1]

\* the variables of one invocation of the scheduler, at rest
SchedulerIdle ==
    /\ edges = {}
    /\ priority = [n \in Nodes |-> 1]
    /\ is_sequential = {}
    /\ timeout = <<>>
    /\ active = [n \in Nodes |-> <<"bool", TRUE>>]
    /\ executed = {}
    /\ raises = {}
    /\ behavior = "strict"
    /\ max_concurrency = 1
    /\ graph = {}
    /\ futures = <<>>
    /\ order = <<>>
    /\ running = {}
    /\ futures_launch_time = <<>>
    /\ runnable_xns_ids = {}
    /\ next_timeout = {}
    /\ result = [n \in Nodes |-> "NoVal"]
    /\ pc = "start"
    /\ now = 0
    /\ reaped = {}
    /\ pruned = {}
    /\ picked = {}
    /\ ready_at_pick = {}
    /\ waited_on = {}
    /\ failed_wait = "none"

\* a node_dict whose records may hold a result (an input, a setup node that
\* was run) and no invocation yet
ReuseInit ==
    /\ SchedulerIdle
    /\ setup \in SUBSET Nodes
    /\ heap \in [Nodes -> {"NoVal", "T", "F"}]
    /\ xns_dict = <<>>
    /\ call = 0
    /\ ran = {}
    /\ tables = <<>>

\* line 135, execute called without modified_node_dict
Invoke ==
    /\ xns_dict = <<>>
    /\ call < MaxCalls
    /\ LET c == copy_non_setup_xns(NodeIds, heap, <<>>)
       IN  /\ heap' = c.heap
           /\ xns_dict' = c.x_nodes_copy
    /\ call' = call + 1
    /\ ran' = {}
    /\ UNCHANGED <<setup, tables, inputs, locals, now, history>>

\* ExecNode._execute of a node that is not executed: the run stores its result
\* in the record of the state table
RunNode(id_) ==
    /\ xns_dict # <<>>
    /\ heap[xns_dict[id_]] = "NoVal"
    /\ \E v \in {"T", "F"} : heap' = [heap EXCEPT ![xns_dict[id_]] = v]
    /\ ran' = ran \cup {id_}
    /\ UNCHANGED <<setup, xns_dict, call, tables, inputs, locals, now, history>>

\* line 257: execute returns the state table
ReturnTable ==
    /\ xns_dict # <<>>
    /\ tables' = Append(tables, xns_dict)
    /\ xns_dict' = <<>>
    /\ UNCHANGED <<setup, heap, call, ran, inputs, locals, now, history>>

ReuseNext ==
    \/ Invoke
    \/ \E id_ \in Nodes : RunNode(id_)
    \/ ReturnTable

ReuseSpec == ReuseInit /\ [][ReuseNext]_vars

\* ==================================================================== claims
Submitted_ids == DOMAIN futures

\* position of a submitted id in the submission order
RECURSIVE IndexIn(_, _)
IndexIn(q, id_) == IF q = <<>> THEN 0
                   ELSE IF Head(q) = id_ THEN 1
                   ELSE 1 + IndexIn(Tail(q), id_)

\* the dependencies of n in the working graph the loop starts from
Dependencies(n) == Predecessors(n) \ executed

\* C1  Topological correctness: every dependency of a submitted node was
\* submitted before it, its future is done and it has been reaped.
C1_TopologicalOrder ==
    \A n \in Submitted_ids : \A p \in Dependencies(n) :
        /\ p \in Submitted_ids
        /\ IndexIn(order, p) < IndexIn(order, n)
        /\ FutDone(p)
        /\ p \in reaped
        /\ p \notin graph

C1_Witness ==
    \E n \in Submitted_ids : Cardinality(Dependencies(n)) = 2

\* the nodes that are executing: submitted and not done
InFlight == {id_ \in DOMAIN futures : ~FutDone(id_)}

\* C2  Sequential isolation: while a sequential node is in flight no other
\* node is in flight.
C2_SequentialIsolation ==
    \A n \in InFlight : n \in is_sequential => InFlight = {n}

\* C3  Concurrency bound: the number of workers that execute a run is at most
\* max_concurrency.
C3_ConcurrencyBound == NumWorkersBusy <= max_concurrency

C3_Witness ==
    /\ NumWorkersBusy = max_concurrency
    /\ \E id_ \in DOMAIN futures : futures[id_] = "pending"

\* C4  Priority selection: the node a pick chooses has the highest priority of
\* the ready set and, among the nodes of that priority, the highest
\* compound_priority.
C4_PrioritySelection ==
    \A n \in picked : \A m \in ready_at_pick :
        /\ n \in ready_at_pick
        /\ priority[n] >= priority[m]
        /\ priority[n] = priority[m] => compound_priority(n) >= compound_priority(m)

\* a pick in which the priority decides against the compound_priority
C4_Witness ==
    \E n \in picked :
        /\ n \in Submitted_ids
        /\ \E m \in ready_at_pick :
             priority[m] < priority[n] /\ compound_priority(m) >= compound_priority(n)

\* a pick that the compound_priority decides between nodes of equal priority
C4_TieBreakReached ==
    \E n \in picked :
        /\ n \in Submitted_ids
        /\ \E m \in ready_at_pick :
             priority[m] = priority[n] /\ compound_priority(m) < compound_priority(n)

\* C5  Conditional pruning: a picked node whose active evaluates to false is
\* never submitted, and neither is any of its transitive dependents.
C5_ConditionalPruning ==
    \A n \in pruned : ({n} \cup AllDescendants(n)) \cap Submitted_ids = {}

C5_Witness ==
    /\ pc = "returned"
    /\ \E n \in pruned :
         /\ active[n][1] = "ref"
         /\ AllDescendants(n) # {}
         /\ Submitted_ids # {}

\* the submitted nodes whose run raised
Failed == {id_ \in DOMAIN futures : futures[id_] = "err"}

\* C6  Strict policy: once a run has raised, execute never returns normally,
\* the failed node never passes the reap loop (the reap re-raises), and no
\* dependent of the failed node is submitted.
C6_StrictPolicy ==
    behavior = "strict" =>
        \A n \in Failed :
            /\ pc # "returned"
            /\ n \notin reaped
            /\ n \in graph
            /\ AllDescendants(n) \cap Submitted_ids = {}

C6_Witness ==
    /\ behavior = "strict"
    /\ pc = "NodeError"
    /\ \E n \in Failed : AllDescendants(n) # {} /\ Dependencies(n) # {}

\* C7  All-children policy, pruning: no transitive dependent of a node whose
\* run raised is submitted.
C7_AllChildrenPruning ==
    behavior = "all_children" =>
        \A n \in Failed : AllDescendants(n) \cap Submitted_ids = {}

C7_Witness ==
    /\ behavior = "all_children"
    /\ pc = "returned"
    /\ \E n \in Failed : n \in reaped /\ Cardinality(AllDescendants(n)) = 2

\* C8  All-children policy, no abort: a node failure never aborts the
\* invocation; at the return the results of the nodes that do not depend on a
\* failed node are present and those of the pruned dependents are absent.
C8_AllChildrenNoAbort ==
    behavior = "all_children" =>
        /\ pc \notin {"NodeError", "GraphError"}
        /\ pc = "returned" =>
             \A n \in Failed : \A d \in AllDescendants(n) : result[d] = "NoVal"

\* C9  Permissive policy: a run that raises never aborts the invocation, the
\* failed node is removed from the graph when it is reaped, and at the return
\* every dependent of it has been submitted unless it was pruned as inactive
\* (itself or with an inactive ancestor).
PrunedInactive(d) == \E q \in pruned : d \in {q} \cup AllDescendants(q)

C9_PermissivePolicy ==
    behavior = "permissive" =>
        /\ pc \notin {"NodeError", "GraphError"}
        /\ \A n \in Failed :
             /\ n \in reaped => n \notin graph
             /\ pc = "returned" =>
                  /\ n \in reaped
                  /\ \A d \in AllDescendants(n) :
                       d \in Submitted_ids \/ PrunedInactive(d)

C9_Witness ==
    /\ behavior = "permissive"
    /\ pc = "returned"
    /\ \E n \in Failed : \E d \in AllDescendants(n) :
         /\ d \in Submitted_ids
         /\ Cardinality(Dependencies(d)) = 2

\* C10  Timeout detection: a wait that ends after the deadline of the wait has
\* passed while none of the in-flight nodes has completed raises
\* TawaziTimeoutError.
C10_TimeoutDetected ==
    [][(/\ pc \in {"wait1", "wait6", "wait9"}
        /\ pc' # pc
        /\ next_timeout # {}
        /\ \A d \in next_timeout : now >= d
        /\ waited_on # {}
        /\ waited_on \subseteq InFlight)
       => pc' = "TimeoutError"]_vars

\* the in-flight nodes that have been in flight for at least their timeout
Overrun ==
    {n \in InFlight : n \in DOMAIN timeout /\ now >= futures_launch_time[n] + timeout[n]}

\* the set of handles the wait in progress was issued on
WaitHandles ==
    IF pc \in {"wait1", "wait6"} THEN running
    ELSE IF pc = "wait9" THEN DOMAIN futures
    ELSE {}

\* C11  Timeout soundness: at the moment the invocation fails with
\* TawaziTimeoutError some in-flight node with a timeout has been in flight for
\* at least its timeout; without any timeout there is no TawaziTimeoutError;
\* no wait is issued on an empty set of handles.
C11_TimeoutSoundness ==
    /\ [][(pc # "TimeoutError" /\ pc' = "TimeoutError") => Overrun # {}]_vars
    /\ [](DOMAIN timeout = {} => pc # "TimeoutError")
    /\ [](pc \in {"wait1", "wait6", "wait9"} => WaitHandles # {})

\* a TawaziTimeoutError raised while a node without timeout is in flight too
C11_Witness ==
    /\ pc = "TimeoutError"
    /\ Overrun # {}
    /\ \E m \in InFlight : m \notin DOMAIN timeout

\* C12  Termination: when every started run ends and the threads are scheduled
\* fairly, execute ends: it returns, with the working graph empty, or it
\* raises an error.
C12_Termination ==
    /\ <>Finished
    /\ [](pc = "returned" => graph = {})

\* a return after a node waited in the work queue of the pool and after a
\* sequential node was deferred
C12_Witness ==
    /\ pc = "returned"
    /\ graph = {}
    /\ DOMAIN futures = Nodes
    /\ is_sequential # {}
    /\ max_concurrency = 1

\* transitive dependencies in the graph passed to execute
Ancestors(n) == {p \in Nodes : n \in AllDescendants(p)}

\* n is a node of the working graph whose active evaluates to false, or a
\* transitive dependent of such a node
Deactivated(n) ==
    \E q \in ({n} \cup Ancestors(n)) \ executed : ~xn_active_in_call(q)

\* C13  Completeness: at a normal return after which no run has raised, every
\* node that was not executed on entry and is neither inactive nor a transitive
\* dependent of an inactive node has been submitted, its run has completed and
\* stored a result, and it has been reaped.
C13_Completeness ==
    (pc = "returned" /\ Failed = {}) =>
        \A n \in Nodes \ executed :
            ~Deactivated(n) =>
                /\ n \in Submitted_ids
                /\ futures[n] = "ok"
                /\ result[n] # "NoVal"
                /\ n \in reaped

\* a return after an inactive node was pruned beside a subgraph of two nodes
C13_Witness ==
    /\ pc = "returned"
    /\ Failed = {}
    /\ \E q \in pruned : \E n \in Submitted_ids :
         /\ Dependencies(n) # {}
         /\ ~Deactivated(n)
         /\ q \notin Ancestors(n)

\* C14  Input short-circuit: once the loop has started no node executed on
\* entry is in the working graph, and such a node is never submitted.
C14_InputShortCircuit ==
    /\ pc # "start" => graph \cap executed = {}
    /\ Submitted_ids \cap executed = {}

\* a node all of whose dependencies were executed on entry has been submitted
C14_Witness ==
    \E n \in Submitted_ids :
        /\ Predecessors(n) # {}
        /\ Predecessors(n) \subseteq executed

\* C15  Reusability: an invocation without modified_node_dict works on a state
\* table in which a setup node is the record of node_dict and every other
\* node is an object that did not exist before the invocation; no run changes
\* the record of node_dict of a node that is not a setup node; the state tables
\* of two invocations share no record of such a node, and the result such a
\* node has in the state table is that of its record in node_dict unless its
\* run stored one in this invocation.
C15_Reusability ==
    /\ [][xns_dict' # xns_dict /\ xns_dict' # <<>> =>
            \A n \in Nodes :
                IF n \in setup THEN xns_dict'[n] = node_dict(n)
                ELSE xns_dict'[n] \notin DOMAIN heap]_vars
    /\ [][\A n \in Nodes \ setup : heap'[node_dict(n)] = heap[node_dict(n)]]_vars
    /\ [](\A n \in Nodes \ setup :
            /\ \A i, j \in DOMAIN tables : i # j => tables[i][n] # tables[j][n]
            /\ xns_dict # <<>> /\ n \notin ran
                 => heap[xns_dict[n]] = heap[node_dict(n)])

\* the second invocation runs a node that is not a setup node and that the
\* first invocation ran too, beside a setup node
C15_Witness ==
    /\ call = 2
    /\ Len(tables) = 1
    /\ setup # {}
    /\ \E n \in ran \ setup :
         /\ heap[tables[1][n]] # "NoVal"
         /\ heap[node_dict(n)] = "NoVal"

\* C16  Populated dependencies, as stated: under every error policy every
\* dependency of a submitted node has been reaped (or was executed on entry)
\* and holds a result.
C16_PopulatedDependencyEveryPolicy ==
    \A n \in Submitted_ids : \A p \in Predecessors(n) :
        /\ p \in executed \/ p \in reaped
        /\ result[p] # "NoVal"

\* C16  Populated dependencies, amended: every dependency of a submitted node
\* has been reaped (or was executed on entry) and holds a result, unless the
\* policy is permissive and the run of the dependency raised.
C16_PopulatedDependency ==
    \A n \in Submitted_ids : \A p \in Predecessors(n) :
        /\ p \in executed \/ p \in reaped
        /\ result[p] # "NoVal" \/ (behavior = "permissive" /\ p \in Failed)

\* a submitted node with a dependency that raised and one that holds a result
C16_Witness ==
    \E n \in Submitted_ids : \E p, q \in Dependencies(n) :
        /\ p \in Failed
        /\ result[p] = "NoVal"
        /\ q \in reaped
        /\ result[q] # "NoVal"

\* C17  Block-if-saturated: the number of submitted futures that are not done
\* is at most max_concurrency.
C17_BlockIfSaturated == Cardinality(InFlight) <= max_concurrency

\* C18  At-most-once submission: no id occurs twice in the sequence of
\* submissions, and a reaped node is no longer in the working graph.
C18_AtMostOnceSubmission ==
    /\ \A i, j \in DOMAIN order : order[i] = order[j] => i = j
    /\ reaped \cap graph = {}

\* the ready set is listed while a root is in flight and a root is not yet
\* submitted
C18_Witness ==
    /\ pc = "pick"
    /\ \E n \in InFlight : n \in root_nodes(graph) /\ n \notin runnable_xns_ids
    /\ reaped # {}

\* a ready node that could be submitted at once: not sequential and active
Dispatchable == {m \in Runnable(graph) : m \notin is_sequential /\ xn_active_in_call(m)}

\* the coordinator is in a wait that was issued while fewer than
\* max_concurrency nodes were in flight and a dispatchable node was ready
WaitsWithWorkAtHand ==
    /\ pc \in {"wait1", "wait6", "wait9"}
    /\ Cardinality(waited_on) < max_concurrency
    /\ Dispatchable # {}

\* C19  Work conservation, as stated: the coordinator never waits while a
\* non-sequential, active node is ready and fewer than max_concurrency nodes
\* are in flight.
C19_WorkConservation == ~WaitsWithWorkAtHand

\* C19  Parallel dispatch, amended: the wait of step 1 is issued only when the
\* in-flight count equals max_concurrency or no node is ready; the waits of
\* steps 6 and 9 are issued only for a picked sequential node (not submitted
\* at step 6, just submitted at step 9); the coordinator waits while a
\* dispatchable node is ready and fewer than max_concurrency nodes are in
\* flight only in these two waits for a sequential node; a picked node that
\* is not sequential and is active is submitted by the step that picks it.
C19_ParallelDispatch ==
    /\ [](pc = "wait1" =>
            Cardinality(waited_on) = max_concurrency \/ Runnable(graph) = {})
    /\ [](pc = "wait6" =>
            /\ picked \subseteq is_sequential
            /\ picked \cap Submitted_ids = {}
            /\ waited_on # {})
    /\ [](pc = "wait9" =>
            /\ picked \subseteq is_sequential
            /\ picked \subseteq waited_on)
    /\ [](WaitsWithWorkAtHand => pc \in {"wait6", "wait9"})
    /\ [][pc = "pick" /\ pc' # "pick" =>
            \A n \in picked' :
                (n \notin is_sequential /\ xn_active_in_call(n)) => n \in DOMAIN futures']_vars

\* two nodes that are not sequential execute at the same time
C19_Witness ==
    /\ max_concurrency = 2
    /\ is_sequential = {}
    /\ \E n, m \in InFlight : n # m /\ futures[n] = "running" /\ futures[m] = "running"
    /\ pc = "wait1"

\* the sequential node that the last pick chose and deferred (step 4.2)
DeferredLast ==
    {x \in picked : x \in is_sequential /\ x \in graph /\ x \notin Submitted_ids}

\* C20  Re-pick after sequential deferral: a picked sequential node is not
\* submitted while other nodes are in flight; the wait of step 4.2 goes back
\* to the head of the loop and the next pick follows a reap and a fresh list
\* of the runnable roots; when that list holds a node of higher priority than
\* the deferred node, the pick does not choose the deferred node; a
\* sequential node is submitted only while no node is in flight.
C20_RePickAfterDeferral ==
    /\ [](pc = "wait6" =>
            /\ picked \subseteq is_sequential
            /\ picked \subseteq graph
            /\ picked \cap Submitted_ids = {})
    /\ [][pc = "wait6" /\ pc' # "wait6" => pc' \in {"loop", "TimeoutError"}]_vars
    /\ [][pc # "pick" /\ pc' = "pick" =>
            pc = "reap" /\ runnable_xns_ids' = Runnable(graph')]_vars
    /\ [][\A x \in DeferredLast :
            (/\ pc = "pick"
             /\ pc' # "pick"
             /\ \E y \in runnable_xns_ids : priority[y] > priority[x])
            => /\ x \notin picked'
               /\ x \notin DOMAIN futures'
               /\ \A y \in picked' : priority[y] > priority[x]]_vars
    /\ [][\A x \in is_sequential :
            (x \notin DOMAIN futures /\ x \in DOMAIN futures') => InFlight = {}]_vars

\* after the deferral of a sequential node the fresh list of runnable roots
\* holds a node of higher priority that was not ready at the deferral
C20_Witness ==
    /\ pc = "pick"
    /\ \E x \in DeferredLast : \E y \in runnable_xns_ids :
         /\ priority[y] > priority[x]
         /\ y \notin ready_at_pick

\* the ids that left the working graph by remove_recursively: neither removed
\* as executed on entry (line 140) nor removed by the reap loop (line 186)
RemovedRecursively == Nodes \ (graph \cup reaped \cup executed)

\* C21  Pruning never touches in-flight work: no node removed from the working
\* graph by remove_recursively (inactive picked node, all_children policy) has
\* been submitted; a submitted node stays in the working graph until its
\* future is done and the reap loop has handled it; at a normal return every
\* submitted future is done and has passed through handle_exception.
C21_PruningSparesSubmitted ==
    /\ RemovedRecursively \cap Submitted_ids = {}
    /\ \A n \in Submitted_ids : n \in graph \/ (FutDone(n) /\ n \in reaped)
    /\ pc = "returned" => \A n \in Submitted_ids : FutDone(n) /\ n \in reaped

\* a return after the dependents of a failed node were removed under
\* all_children and an inactive node was pruned while a node was submitted
C21_Witness ==
    /\ pc = "returned"
    /\ behavior = "all_children"
    /\ \E n \in Failed : AllDescendants(n) \cap RemovedRecursively # {}
    /\ pruned # {}
    /\ Cardinality(RemovedRecursively) >= 2

====
